---- MODULE Spec2Model ----
(***************************************************************************)
(* Registro de Traslados Papudo - La Ligua (streamlit_app.py).             *)
(*                                                                         *)
(* The state is Streamlit's session_state (data, next_id, cfg_tarifa,      *)
(* cfg_incluir_conductor, dirty) plus what the last script run rendered:   *)
(* the message shown by st.warning / st.success / st.error (msg) and the   *)
(* workbook offered by the Excel export (xlsx).  One action per button     *)
(* handler or sidebar widget.                                              *)
(*                                                                         *)
(* A cell of the column "pasajeros" is the string ";".join(names); it is   *)
(* modelled by the list that str.split(";") without empty items gives      *)
(* back, i.e. a sequence of names.  Dates are day numbers.                 *)
(***************************************************************************)
EXTENDS Integers, Sequences, FiniteSets, TLC

VARIABLES data, next_id, cfg_tarifa, cfg_incluir_conductor, dirty, msg, xlsx

vars == <<data, next_id, cfg_tarifa, cfg_incluir_conductor, dirty, msg, xlsx>>

----------------------------------------------------------------------------
(* Program constants *)

PARTICIPANTES == <<"JP", "Gerard", "Paula", "Wilson", "Valentina">>
CONDUCTORES == <<"Wilson", "Valentina">>
TRAMOS == <<"Ida", "Vuelta">>
TIPOS == <<"Ida", "Vuelta", "Ida y Vuelta">>
TarifaDefault == 1250

(* pd.NA / NaN: what errors="coerce" leaves for a missing or non-numeric cell *)
NA == -1

----------------------------------------------------------------------------
(* Bounds of the model *)

MaxLegs == 2      \* rows the store holds at most
MaxId == 2        \* largest id the counter hands out

(* Inputs enumerated for the forms: dates, default fares, and the
   (conductor, tarifa, pasajeros) fills of the add and edit forms *)
Fechas == {10}
Tarifas == {TarifaDefault, 1300}
Viajes ==
    { <<"Valentina", TarifaDefault, <<"JP", "Wilson">> >>,
      <<"Wilson", 1300, <<"JP", "Wilson">> >>,
      <<"Wilson", 1300, <<>> >> }
ViajesIds ==
    { <<"Wilson", TarifaDefault, <<"JP">> >>,
      <<"Wilson", TarifaDefault, <<>> >> }

----------------------------------------------------------------------------
(* Helpers on sequences *)

Range(s) == {s[i] : i \in DOMAIN s}

RECURSIVE SumHasta(_, _)
SumHasta(s, n) == IF n = 0 THEN 0 ELSE s[n] + SumHasta(s, n - 1)

SumSeq(s) == SumHasta(s, Len(s))

RECURSIVE ConcatHasta(_, _)
ConcatHasta(ss, n) == IF n = 0 THEN <<>> ELSE ConcatHasta(ss, n - 1) \o ss[n]

Concat(ss) == ConcatHasta(ss, Len(ss))

Max(a, b) == IF a >= b THEN a ELSE b

RECURSIVE MaxHasta(_, _)
MaxHasta(s, n) == IF n = 1 THEN s[1] ELSE Max(s[n], MaxHasta(s, n - 1))

MaxSeq(s) == MaxHasta(s, Len(s))

----------------------------------------------------------------------------
(* Rows.  A row of the store has the columns of COLS. *)

Fila(id, fecha, conductor, tramo, pasajeros, tarifa, n_p, monto) ==
    [id |-> id, fecha |-> fecha, conductor |-> conductor, tramo |-> tramo,
     pasajeros |-> pasajeros, tarifa_por_tramo |-> tarifa,
     n_pasajeros |-> n_p, monto_al_conductor |-> monto]

(* pd.to_numeric(errors="coerce").fillna(0).astype(int) on one cell *)
FillNa0(x) == IF x = NA THEN 0 ELSE x

(* _clean_df: id stays nullable (Int64); the three amounts are coerced to int
   with 0 for a missing or invalid cell; the other columns pass through *)
clean_df(df) ==
    [i \in DOMAIN df |->
        [df[i] EXCEPT !.tarifa_por_tramo = FillNa0(@),
                      !.n_pasajeros = FillNa0(@),
                      !.monto_al_conductor = FillNa0(@)]]

(* data["id"] = pd.to_numeric(data["id"], errors="coerce").fillna(0).astype(int) *)
ids_a_int(df) == [i \in DOMAIN df |-> [df[i] EXCEPT !.id = FillNa0(@)]]

(* the id column as a list *)
ColId(df) == [i \in DOMAIN df |-> df[i].id]

----------------------------------------------------------------------------
(* Summaries *)

NaN == "NaN"

(* _explode_pasajeros: one row per passenger per leg, monto = tarifa_por_tramo;
   DataFrame.explode keeps a leg with an empty list as one row with NaN *)
explode_pasajeros(df) ==
    IF df = <<>> THEN <<>>
    ELSE Concat([i \in DOMAIN df |->
            IF df[i].pasajeros = <<>>
            THEN << [fecha |-> df[i].fecha, conductor |-> df[i].conductor,
                     tramo |-> df[i].tramo, pasajero |-> NaN,
                     monto |-> df[i].tarifa_por_tramo] >>
            ELSE [j \in DOMAIN df[i].pasajeros |->
                    [fecha |-> df[i].fecha, conductor |-> df[i].conductor,
                     tramo |-> df[i].tramo, pasajero |-> df[i].pasajeros[j],
                     monto |-> df[i].tarifa_por_tramo]]])

(* df.groupby("conductor")["monto_al_conductor"].sum() *)
sum_c(df) ==
    [c \in {df[i].conductor : i \in DOMAIN df} |->
        SumSeq([i \in DOMAIN df |->
            IF df[i].conductor = c THEN df[i].monto_al_conductor ELSE 0])]

(* expl.groupby("pasajero")["monto"].sum(): groupby drops the NaN key *)
agrupar_pasajero(expl) ==
    [p \in {expl[i].pasajero : i \in DOMAIN expl} \ {NaN} |->
        SumSeq([i \in DOMAIN expl |->
            IF expl[i].pasajero = p THEN expl[i].monto ELSE 0])]

(* sum_p on screen: the groupby, then reindex(PARTICIPANTES, fill_value=0) *)
sum_p(df) ==
    LET g == agrupar_pasajero(explode_pasajeros(df))
    IN  [p \in Range(PARTICIPANTES) |-> IF p \in DOMAIN g THEN g[p] ELSE 0]

(* df_sum_persona of the Excel export: the groupby alone *)
df_sum_persona(df) == agrupar_pasajero(explode_pasajeros(df))

(* _pivot_pasajero_conductor: sums per (pasajero, conductor), reindexed to
   PARTICIPANTES x CONDUCTORES with 0 *)
pivot_pasajero_conductor(expl) ==
    [pc \in Range(PARTICIPANTES) \X Range(CONDUCTORES) |->
        IF expl = <<>> THEN 0
        ELSE SumSeq([i \in DOMAIN expl |->
                IF expl[i].pasajero = pc[1] /\ expl[i].conductor = pc[2]
                THEN expl[i].monto ELSE 0])]

----------------------------------------------------------------------------
(* What a script run renders *)

Mensaje(kind, n) == [kind |-> kind, n |-> n]

Aviso(kind) == Mensaje(kind, 0)

SinMensaje == Aviso("")

SinLibro ==
    [hojas |-> {}, datos |-> <<>>, resumen_conductor |-> <<>>,
     resumen_persona |-> <<>>, matriz |-> <<>>]

(* the workbook of "Exportar Excel": the sheet Datos always, the three
   summary sheets only when the store is not empty *)
libro_excel(df) ==
    IF df = <<>>
    THEN [SinLibro EXCEPT !.hojas = {"Datos"}]
    ELSE [hojas |-> {"Datos", "Resumen Conductor", "Resumen Persona", "Matriz"},
          datos |-> df,
          resumen_conductor |-> sum_c(df),
          resumen_persona |-> df_sum_persona(df),
          matriz |-> pivot_pasajero_conductor(explode_pasajeros(df))]

----------------------------------------------------------------------------
(* _init_state *)

Init ==
    /\ data = <<>>
    /\ next_id = 1
    /\ cfg_tarifa = TarifaDefault
    /\ cfg_incluir_conductor = FALSE
    /\ dirty = FALSE
    /\ msg = SinMensaje
    /\ xlsx = SinLibro

----------------------------------------------------------------------------
(* Sidebar configuration: the widget's value is persisted on every run *)

(* ConfigTarifa that also re-prices the legs of the store *)
ConfigTarifa_recalcula(tarifa_default) ==
    /\ tarifa_default # cfg_tarifa
    /\ cfg_tarifa' = tarifa_default
    /\ data' = [i \in DOMAIN data |->
                  [data[i] EXCEPT !.tarifa_por_tramo = tarifa_default,
                                  !.monto_al_conductor = tarifa_default * data[i].n_pasajeros]]
    /\ msg' = SinMensaje
    /\ xlsx' = SinLibro
    /\ UNCHANGED <<next_id, cfg_incluir_conductor, dirty>>

ConfigTarifa(tarifa_default) ==
    /\ tarifa_default # cfg_tarifa
    /\ cfg_tarifa' = tarifa_default
    /\ msg' = SinMensaje
    /\ xlsx' = SinLibro
    /\ UNCHANGED <<data, next_id, cfg_incluir_conductor, dirty>>

ConfigIncluir(incluir_conductor) ==
    /\ incluir_conductor # cfg_incluir_conductor
    /\ cfg_incluir_conductor' = incluir_conductor
    /\ msg' = SinMensaje
    /\ xlsx' = SinLibro
    /\ UNCHANGED <<data, next_id, cfg_tarifa, dirty>>

----------------------------------------------------------------------------
(* Add a trip *)

(* the options of a passenger multiselect *)
opciones_pasajeros(conductor, incluir) ==
    SelectSeq(PARTICIPANTES, LAMBDA p : incluir \/ p # conductor)

(* filas_viaje with the amount not multiplied by the number of passengers *)
filas_viaje_sin_multiplicar(fecha, conductor, tipo, tarifa, pasajeros) ==
    LET legs == IF tipo = "Ida y Vuelta" THEN <<"Ida", "Vuelta">> ELSE <<tipo>>
    IN  [k \in DOMAIN legs |->
            Fila(NA, fecha, conductor, legs[k], pasajeros, tarifa,
                 Len(pasajeros), tarifa)]

(* the rows built by "Agregar al registro", before their ids *)
filas_viaje(fecha, conductor, tipo, tarifa, pasajeros) ==
    LET legs == IF tipo = "Ida y Vuelta" THEN <<"Ida", "Vuelta">> ELSE <<tipo>>
        n_p == Len(pasajeros)
        monto == tarifa * n_p
    IN  [k \in DOMAIN legs |->
            Fila(NA, fecha, conductor, legs[k], pasajeros, tarifa, n_p, monto)]

(* the loop of _append_rows: ids next_id, next_id + 1, ... in row order *)
asignar_ids(rows, nid) ==
    [k \in DOMAIN rows |-> [rows[k] EXCEPT !.id = nid + k - 1]]

append_rows(rows) ==
    IF rows = <<>>
    THEN UNCHANGED <<data, next_id, dirty>>
    ELSE /\ data' = data \o asignar_ids(rows, next_id)
         /\ next_id' = next_id + Len(rows)
         /\ dirty' = TRUE

(* Agregar without the check for an empty selection *)
Agregar_sin_validar(fecha, conductor, tipo, tarifa, pasajeros) ==
    /\ Range(pasajeros) \subseteq Range(opciones_pasajeros(conductor, cfg_incluir_conductor))
    /\ LET rows == filas_viaje(fecha, conductor, tipo, tarifa, pasajeros)
       IN  /\ Len(data) + Len(rows) <= MaxLegs
           /\ next_id + Len(rows) - 1 <= MaxId
           /\ append_rows(rows)
           /\ msg' = Aviso("success_registro")
    /\ xlsx' = SinLibro
    /\ UNCHANGED <<cfg_tarifa, cfg_incluir_conductor>>

Agregar(fecha, conductor, tipo, tarifa, pasajeros) ==
    /\ Range(pasajeros) \subseteq Range(opciones_pasajeros(conductor, cfg_incluir_conductor))
    /\ IF Len(pasajeros) = 0
       THEN /\ msg' = Aviso("warning_sin_pasajeros")
            /\ UNCHANGED <<data, next_id, dirty>>
       ELSE LET rows == filas_viaje(fecha, conductor, tipo, tarifa, pasajeros)
            IN  /\ Len(data) + Len(rows) <= MaxLegs
                /\ next_id + Len(rows) - 1 <= MaxId
                /\ append_rows(rows)
                /\ msg' = Aviso("success_registro")
    /\ xlsx' = SinLibro
    /\ UNCHANGED <<cfg_tarifa, cfg_incluir_conductor>>

----------------------------------------------------------------------------
(* History listing: the filters of _df.  desde / hasta are NA when the date
   filters are off; an empty driver selection does not filter *)

df_filtrado(df, desde, hasta, filtro_conductor) ==
    LET d1 == clean_df(df)
        d2 == IF desde # NA THEN SelectSeq(d1, LAMBDA r : r.fecha >= desde) ELSE d1
        d3 == IF hasta # NA THEN SelectSeq(d2, LAMBDA r : r.fecha <= hasta) ELSE d2
    IN  IF filtro_conductor # {}
        THEN SelectSeq(d3, LAMBDA r : r.conductor \in filtro_conductor)
        ELSE d3

(* _df["id"].dropna().astype(int).tolist() *)
ids_disp(df) == {df[i].id : i \in DOMAIN df} \ {NA}

(* the ids the delete and edit widgets offer.  Every filter setting offers a
   subset of what the unfiltered listing offers, so the unfiltered listing
   stands for all of them *)
IdsOfrecidos == ids_disp(df_filtrado(data, NA, NA, {}))

(* the order of str on the names of drivers and directions (by code point) *)
OrdenCadenas == <<"Ida", "Valentina", "Vuelta", "Wilson">>

Rango(x) == CHOOSE k \in DOMAIN OrdenCadenas : OrdenCadenas[k] = x

(* clave_menor with the direction compared before the driver *)
clave_menor_tramo_antes(a, b) ==
    \/ a.fecha < b.fecha
    \/ a.fecha = b.fecha /\ Rango(a.tramo) < Rango(b.tramo)
    \/ a.fecha = b.fecha /\ a.tramo = b.tramo
          /\ Rango(a.conductor) < Rango(b.conductor)

(* row a sorts before row b under the keys ["fecha", "conductor", "tramo"] *)
clave_menor(a, b) ==
    \/ a.fecha < b.fecha
    \/ a.fecha = b.fecha /\ Rango(a.conductor) < Rango(b.conductor)
    \/ a.fecha = b.fecha /\ a.conductor = b.conductor
          /\ Rango(a.tramo) < Rango(b.tramo)

(* sort_values on several columns is a stable lexicographic sort: a row goes
   after the rows with a smaller key and the earlier rows with an equal key *)
sort_values(df) ==
    LET antes(i) == {j \in DOMAIN df :
                        \/ clave_menor(df[j], df[i])
                        \/ ~clave_menor(df[i], df[j]) /\ j < i}
    IN  [k \in DOMAIN df |->
            df[CHOOSE i \in DOMAIN df : Cardinality(antes(i)) = k - 1]]

(* the listing st.dataframe shows: the filters, then the sort *)
listado(df, desde, hasta, filtro_conductor) ==
    sort_values(df_filtrado(df, desde, hasta, filtro_conductor))

----------------------------------------------------------------------------
(* Delete by id *)

(* eliminar_filas that drops by index label instead of by id *)
eliminar_por_indice(df, sel_del) ==
    LET quedan == {i \in DOMAIN df : (i - 1) \notin sel_del}
    IN  [k \in 1..Cardinality(quedan) |->
            df[CHOOSE i \in quedan : Cardinality({j \in quedan : j <= i}) = k]]

(* data[~data["id"].isin(sel_del)].reset_index(drop=True) *)
eliminar_filas(df, sel_del) == SelectSeq(df, LAMBDA r : r.id \notin sel_del)

Eliminar(sel_del) ==
    /\ sel_del # {}
    /\ sel_del \subseteq IdsOfrecidos
    /\ data' = eliminar_filas(data, sel_del)
    /\ dirty' = TRUE
    /\ msg' = Mensaje("success_eliminadas",
                      Len(data) - Len(eliminar_filas(data, sel_del)))
    /\ xlsx' = SinLibro
    /\ UNCHANGED <<next_id, cfg_tarifa, cfg_incluir_conductor>>

----------------------------------------------------------------------------
(* Edit a row *)

(* data.index[data["id"] == edit_id][0] *)
primer_indice(df, edit_id) ==
    CHOOSE i \in DOMAIN df :
        /\ df[i].id = edit_id
        /\ \A j \in DOMAIN df : df[j].id = edit_id => i <= j

(* "Guardar cambios": seven columns of that row are overwritten, id is not *)
guardar_cambios(df, edit_id, e_fecha, e_conductor, e_tramo, e_tarifa, e_pasajeros) ==
    LET n_p == Len(e_pasajeros)
        monto == e_tarifa * n_p
        idx == primer_indice(df, edit_id)
    IN  [df EXCEPT ![idx] =
            Fila(df[idx].id, e_fecha, e_conductor, e_tramo, e_pasajeros,
                 e_tarifa, n_p, monto)]

Editar(edit_id, e_fecha, e_conductor, e_tramo, e_tarifa, e_pasajeros) ==
    /\ edit_id \in IdsOfrecidos
    /\ Range(e_pasajeros) \subseteq
            Range(opciones_pasajeros(e_conductor, cfg_incluir_conductor))
    /\ data' = guardar_cambios(data, edit_id, e_fecha, e_conductor, e_tramo,
                               e_tarifa, e_pasajeros)
    /\ dirty' = TRUE
    /\ msg' = Aviso("success_actualizada")
    /\ xlsx' = SinLibro
    /\ UNCHANGED <<next_id, cfg_tarifa, cfg_incluir_conductor>>

----------------------------------------------------------------------------
(* Import.  A file or sheet is a list of raw rows: a numeric cell that is
   missing or not a number is NA *)

(* the date of the rows of the files, which no form fill has *)
FechaArchivo == 11

FilaArchivo(id, monto) ==
    Fila(id, FechaArchivo, "Wilson", "Ida", <<"JP">>, TarifaDefault, 1, monto)

RECURSIVE SeqsHasta(_, _)
SeqsHasta(S, n) ==
    IF n = 0 THEN {<<>>}
    ELSE LET prev == SeqsHasta(S, n - 1)
         IN  prev \cup {Append(q, x) : q \in {r \in prev : Len(r) = n - 1}, x \in S}

(* files for the ledger: empty, and one row of a file that has neither the
   id nor the monto_al_conductor column *)
Archivos == { <<>>, <<FilaArchivo(NA, NA)>> }

(* files for the ids: every id column of up to two cells over NA, 1, 2 *)
ArchivosIds ==
    SeqsHasta({FilaArchivo(id, TarifaDefault) : id \in {NA, 1, 2}}, 2)

(* cargar_csv that numbers a file without ids from 1 *)
cargar_csv_desde_uno(raw, nid) ==
    LET df_up == clean_df(raw)
        todos_na == \A i \in DOMAIN df_up : df_up[i].id = NA
        con_ids == IF todos_na
                   THEN [i \in DOMAIN df_up |-> [df_up[i] EXCEPT !.id = i]]
                   ELSE df_up
        nuevo == IF todos_na
                 THEN Max(nid, Len(df_up) + 1)
                 ELSE Max(nid, MaxSeq(ColId(ids_a_int(df_up))) + 1)
    IN  [data |-> ids_a_int(clean_df(con_ids)), next_id |-> nuevo]

(* "Cargar CSV en memoria", the lines after pd.read_csv, and the id coercion
   of the run that st.rerun() starts *)
cargar_csv(raw, nid) ==
    LET df_up == clean_df(raw)
        todos_na == \A i \in DOMAIN df_up : df_up[i].id = NA
        con_ids == IF todos_na
                   THEN [i \in DOMAIN df_up |-> [df_up[i] EXCEPT !.id = nid + i - 1]]
                   ELSE df_up
        nuevo == IF todos_na
                 THEN nid + Len(df_up)
                 ELSE Max(nid, MaxSeq(ColId(ids_a_int(df_up))) + 1)
    IN  [data |-> ids_a_int(clean_df(con_ids)), next_id |-> nuevo]

(* ImportarCSV that empties the store before it reads the file *)
ImportarCSV_vacia_antes(raw, leido) ==
    IF leido
    THEN LET r == cargar_csv(raw, next_id)
         IN  /\ Len(r.data) <= MaxLegs
             /\ r.next_id <= MaxId + 1
             /\ data' = r.data
             /\ next_id' = r.next_id
             /\ dirty' = TRUE
             /\ msg' = Aviso("success_csv")
             /\ xlsx' = SinLibro
             /\ UNCHANGED <<cfg_tarifa, cfg_incluir_conductor>>
    ELSE /\ data' = <<>>
         /\ msg' = Aviso("error_csv")
         /\ xlsx' = SinLibro
         /\ UNCHANGED <<next_id, dirty, cfg_tarifa, cfg_incluir_conductor>>

ImportarCSV(raw, leido) ==
    IF leido
    THEN LET r == cargar_csv(raw, next_id)
         IN  /\ Len(r.data) <= MaxLegs
             /\ r.next_id <= MaxId + 1
             /\ data' = r.data
             /\ next_id' = r.next_id
             /\ dirty' = TRUE
             /\ msg' = Aviso("success_csv")
             /\ xlsx' = SinLibro
             /\ UNCHANGED <<cfg_tarifa, cfg_incluir_conductor>>
    ELSE /\ msg' = Aviso("error_csv")
         /\ xlsx' = SinLibro
         /\ UNCHANGED <<data, next_id, dirty, cfg_tarifa, cfg_incluir_conductor>>

(* "Cargar desde Sheets", the lines after ws.get_all_values() *)
cargar_sheets(values) ==
    LET df_new == clean_df(clean_df(values))
    IN  IF df_new = <<>>
        THEN [data |-> df_new, next_id |-> 1]
        ELSE [data |-> ids_a_int(df_new),
              next_id |-> MaxSeq(ColId(ids_a_int(df_new))) + 1]

CargarSheets(values, leido) ==
    IF leido
    THEN LET r == cargar_sheets(values)
         IN  /\ Len(r.data) <= MaxLegs
             /\ data' = r.data
             /\ next_id' = r.next_id
             /\ msg' = Aviso("success_sheets")
             /\ xlsx' = SinLibro
             /\ UNCHANGED <<dirty, cfg_tarifa, cfg_incluir_conductor>>
    ELSE /\ msg' = Aviso("error_sheets")
         /\ xlsx' = SinLibro
         /\ UNCHANGED <<data, next_id, dirty, cfg_tarifa, cfg_incluir_conductor>>

----------------------------------------------------------------------------
(* Autosave: a run with "Auto-guardar en Sheets" checked and unsaved changes *)

AutoGuardar(ok) ==
    /\ dirty
    /\ dirty' = ~ok
    /\ msg' = IF ok THEN Aviso("info_autoguardado") ELSE Aviso("error_autoguardado")
    /\ xlsx' = SinLibro
    /\ UNCHANGED <<data, next_id, cfg_tarifa, cfg_incluir_conductor>>

(* Excel export *)

ExportarExcel ==
    /\ xlsx' = libro_excel(ids_a_int(clean_df(data)))
    /\ msg' = SinMensaje
    /\ UNCHANGED <<data, next_id, cfg_tarifa, cfg_incluir_conductor, dirty>>

----------------------------------------------------------------------------

(* The steps of the program over given input sets *)

PasoAgregar(VS) ==
    \E f \in Fechas, v \in VS, tipo \in Range(TIPOS) : Agregar(f, v[1], tipo, v[2], v[3])

PasoEliminar == \E sel \in SUBSET IdsOfrecidos : Eliminar(sel)

PasoEditar(VS) ==
    \E id \in IdsOfrecidos, f \in Fechas, v \in VS, tr \in Range(TRAMOS) :
        Editar(id, f, v[1], tr, v[2], v[3])

PasoImportarCSV(AS) == \E raw \in AS, leido \in BOOLEAN : ImportarCSV(raw, leido)

PasoCargarSheets(AS) == \E values \in AS, leido \in BOOLEAN : CargarSheets(values, leido)

(* The ledger: every operation, the form fills of Viajes *)
Next ==
    \/ \E t \in Tarifas : ConfigTarifa(t)
    \/ \E b \in BOOLEAN : ConfigIncluir(b)
    \/ PasoAgregar(Viajes)
    \/ PasoEliminar
    \/ PasoEditar(Viajes)
    \/ PasoImportarCSV(Archivos)
    \/ PasoCargarSheets(Archivos)
    \/ \E ok \in BOOLEAN : AutoGuardar(ok)
    \/ ExportarExcel

Spec == Init /\ [][Next]_vars

(* The ids: the operations that touch the store, files with every id column *)
NextIds ==
    \/ PasoAgregar(ViajesIds)
    \/ PasoEliminar
    \/ PasoEditar(ViajesIds)
    \/ PasoImportarCSV(ArchivosIds)
    \/ PasoCargarSheets(ArchivosIds)

SpecIds == Init /\ [][NextIds]_vars

(* The listing: adds, edits and deletes over two dates and both drivers *)
FechasListado == {10, 11}
ViajesListado ==
    { <<"Wilson", TarifaDefault, <<"JP">> >>,
      <<"Valentina", TarifaDefault, <<"JP">> >> }

PasoAgregarEn(FS, VS) ==
    \E f \in FS, v \in VS, tipo \in Range(TIPOS) : Agregar(f, v[1], tipo, v[2], v[3])

PasoEditarEn(FS, VS) ==
    \E id \in IdsOfrecidos, f \in FS, v \in VS, tr \in Range(TRAMOS) :
        Editar(id, f, v[1], tr, v[2], v[3])

NextListado ==
    \/ PasoAgregarEn(FechasListado, ViajesListado)
    \/ PasoEditarEn(FechasListado, ViajesListado)
    \/ PasoEliminar

SpecListado == Init /\ [][NextListado]_vars

----------------------------------------------------------------------------
(* Identity of the legs *)

(* C1: in every reachable state no two legs of the store have the same id *)
C1_IdsUnicos ==
    \A i, j \in DOMAIN data : i # j => data[i].id # data[j].id

(* C2: an id is never reused: the counter never decreases and stays above
   every id of the store (so above every id the store ever held) *)
C2_IdNuncaReusado ==
    [][/\ next_id' >= next_id
       /\ \A i \in DOMAIN data' : data'[i].id < next_id']_vars

----------------------------------------------------------------------------
(* The summaries a run shows: those of the listing _df under the default
   filters (no date filter, every driver selected) *)

df_resumen(df) == df_filtrado(df, NA, NA, Range(CONDUCTORES))

----------------------------------------------------------------------------
(* Adding trips *)

(* C3: on an empty store, adding an "Ida y Vuelta" trip with driver d, a
   non-empty passenger list P without d and fare f creates exactly two legs,
   Ida then Vuelta, equal in date, driver, passengers and fare, with two
   distinct fresh ids and monto_al_conductor = f * |P| each; the summaries
   then give d a total of 2 * f * |P|, every p of P a debt of 2 * f, and the
   matrix 2 * f at (p, d) *)
C3_IdaYVuelta ==
    [][\A f \in Fechas, v \in Viajes :
        LET d == v[1]
            t == v[2]
            P == v[3]
        IN  (/\ data = <<>>
             /\ P # <<>>
             /\ d \notin Range(P)
             /\ Agregar(f, d, "Ida y Vuelta", t, P))
            => /\ Len(data') = 2
               /\ data'[1].tramo = "Ida"
               /\ data'[2].tramo = "Vuelta"
               /\ \A k \in 1..2 :
                    /\ data'[k].fecha = f
                    /\ data'[k].conductor = d
                    /\ data'[k].pasajeros = P
                    /\ data'[k].tarifa_por_tramo = t
                    /\ data'[k].n_pasajeros = Len(P)
                    /\ data'[k].monto_al_conductor = t * Len(P)
                    /\ data'[k].id >= next_id
               /\ data'[1].id # data'[2].id
               /\ sum_c(df_resumen(data'))[d] = 2 * t * Len(P)
               /\ \A p \in Range(P) :
                    /\ sum_p(df_resumen(data'))[p] = 2 * t
                    /\ pivot_pasajero_conductor(
                          explode_pasajeros(df_resumen(data')))[<<p, d>>] = 2 * t
      ]_vars

(* C3 witness: a store of exactly the two legs of one round trip with two
   passengers, none of them the driver, right after it was registered *)
C3_Witness ==
    /\ msg.kind = "success_registro"
    /\ Len(data) = 2
    /\ data[1].tramo = "Ida"
    /\ data[2].tramo = "Vuelta"
    /\ data[2].id = data[1].id + 1
    /\ Len(data[1].pasajeros) = 2
    /\ data[1].conductor \notin Range(data[1].pasajeros)
    /\ data[1].tarifa_por_tramo > 0

(* C6: an add request with no passenger is rejected, whatever the direction,
   the fare and the flag, and leaves the legs, the id counter and the dirty
   flag as they were *)
C6_SinPasajerosRechazado ==
    [][\A f \in Fechas, v \in Viajes, tipo \in Range(TIPOS) :
        (v[3] = <<>> /\ Agregar(f, v[1], tipo, v[2], v[3]))
        => /\ msg'.kind = "warning_sin_pasajeros"
           /\ data' = data
           /\ next_id' = next_id
           /\ dirty' = dirty
      ]_vars

(* C6 witness: the rejection shown over a store that has legs and unsaved
   changes, with the flag set *)
C6_Witness ==
    /\ msg.kind = "warning_sin_pasajeros"
    /\ data # <<>>
    /\ dirty
    /\ cfg_incluir_conductor

(* what each roster participant owes, from the fare stored in each leg *)
DeudaSegunTramos(df, p) ==
    SumSeq([i \in DOMAIN df |->
        df[i].tarifa_por_tramo
          * Cardinality({j \in DOMAIN df[i].pasajeros : df[i].pasajeros[j] = p})])

(* C8: changing the default fare leaves every leg's fare, passenger count
   and amount as they were; and the amounts owed are always those of the
   fares stored in the legs, whatever the default fare is, so every summary
   stays as it was *)
C8_TarifaCongelada ==
    /\ [](\A p \in Range(PARTICIPANTES) :
            sum_p(df_resumen(data))[p] = DeudaSegunTramos(df_resumen(data), p))
    /\ [][cfg_tarifa' # cfg_tarifa
            => /\ Len(data') = Len(data)
               /\ \A i \in DOMAIN data :
                    /\ data'[i].tarifa_por_tramo = data[i].tarifa_por_tramo
                    /\ data'[i].n_pasajeros = data[i].n_pasajeros
                    /\ data'[i].monto_al_conductor = data[i].monto_al_conductor
               /\ data' = data
          ]_vars

(* C8 witness: the default fare was changed while the store holds a leg
   registered at another fare *)
C8_Witness ==
    /\ cfg_tarifa # TarifaDefault
    /\ \E i \in DOMAIN data :
        /\ data[i].tarifa_por_tramo # cfg_tarifa
        /\ data[i].monto_al_conductor > 0

----------------------------------------------------------------------------
(* Summaries *)

RECURSIVE SumaTotal(_)
SumaTotal(f) ==
    IF DOMAIN f = {} THEN 0
    ELSE LET k == CHOOSE x \in DOMAIN f : TRUE
         IN  f[k] + SumaTotal([x \in DOMAIN f \ {k} |-> f[x]])

(* C4: for the legs of every reachable store the balances sum to zero: the
   total the drivers collect (sum_c, from monto_al_conductor) equals the
   total the participants owe (sum_p, from tarifa_por_tramo per passenger) *)
C4_SumaCero ==
    LET df == df_resumen(data)
    IN  SumaTotal(sum_c(df)) = SumaTotal(sum_p(df))

(* C5: every per-person table and every passenger x driver matrix the
   program produces, on screen or in the workbook, has an entry for every
   participant of the roster *)
C5_RosterCompleto ==
    LET df == df_resumen(data)
        roster == Range(PARTICIPANTES)
    IN  /\ df # <<>> =>
            /\ DOMAIN sum_p(df) = roster
            /\ DOMAIN pivot_pasajero_conductor(explode_pasajeros(df))
                 = roster \X Range(CONDUCTORES)
        /\ "Resumen Persona" \in xlsx.hojas => DOMAIN xlsx.resumen_persona = roster
        /\ "Matriz" \in xlsx.hojas => DOMAIN xlsx.matriz = roster \X Range(CONDUCTORES)

----------------------------------------------------------------------------
(* Delete and import *)

(* the rows of df at the positions of S, in order *)
FilasEn(df, S) ==
    [k \in 1..Cardinality(S) |->
        df[CHOOSE i \in S : Cardinality({j \in S : j <= i}) = k]]

(* C7: delete by id is idempotent: for any store and any set S of ids,
   removing S leaves exactly the legs whose id is not in S, in order, the
   count is that of the legs whose id is in S (ids of S that match no leg
   count 0), and removing S again removes nothing; a delete step reports
   that count and leaves the id counter as it was *)
C7_EliminarIdempotente ==
    /\ [](\A S \in SUBSET (0..(MaxId + 1)) :
            LET r == eliminar_filas(data, S)
                quedan == {i \in DOMAIN data : data[i].id \notin S}
            IN  /\ r = FilasEn(data, quedan)
                /\ Len(data) - Len(r)
                     = Cardinality({i \in DOMAIN data : data[i].id \in S})
                /\ eliminar_filas(r, S) = r
                /\ Len(r) - Len(eliminar_filas(r, S)) = 0)
    /\ [][msg'.kind = "success_eliminadas"
            => \A S \in SUBSET IdsOfrecidos :
                (S # {} /\ Eliminar(S))
                => /\ data' = FilasEn(data, {i \in DOMAIN data : data[i].id \notin S})
                   /\ msg'.n = Cardinality({i \in DOMAIN data : data[i].id \in S})
                   /\ next_id' = next_id
                   /\ eliminar_filas(data', S) = data'
          ]_vars

(* C7 witness: a delete that removed some legs and left others *)
C7_Witness ==
    /\ msg.kind = "success_eliminadas"
    /\ msg.n >= 1
    /\ data # <<>>

(* a row without its id *)
SinId(r) == [r EXCEPT !.id = NA]

(* the store holds the rows of the file, cleaned, and nothing else *)
SoloImportadas(df, raw) ==
    /\ Len(df) = Len(raw)
    /\ \A i \in DOMAIN raw :
        /\ SinId(df[i]) = SinId(clean_df(raw)[i])
        /\ raw[i].id # NA => df[i].id = raw[i].id

(* C9: import is all or nothing: a CSV import or Sheets load that fails
   leaves the legs and the id counter as they were, and one that succeeds
   leaves the store with rows of the file only: on any file, exactly the
   rows of that file *)
C9_ImportTodoONada ==
    /\ [][msg'.kind \in {"error_csv", "error_sheets"}
            => data' = data /\ next_id' = next_id]_vars
    /\ [][msg'.kind \in {"success_csv", "success_sheets"}
            => \A i \in DOMAIN data' : data'[i].fecha = FechaArchivo]_vars
    /\ [](\A raw \in ArchivosIds :
            /\ SoloImportadas(cargar_csv(raw, next_id).data, raw)
            /\ SoloImportadas(cargar_sheets(raw).data, raw))

(* C9 witness: a failed CSV import over a store that has legs *)
C9_Witness ==
    /\ msg.kind = "error_csv"
    /\ data # <<>>
    /\ next_id > 1

TodosNA(raw) == \A i \in DOMAIN raw : raw[i].id = NA

MaxIdImportado(raw) == MaxSeq(ColId(ids_a_int(raw)))

(* C10 as stated, for the CSV import: a file whose id column is entirely
   missing or invalid gets the ids 1..N in row order; otherwise the imported
   ids are adopted and the counter ends above the largest of them *)
C10_IdsDesdeUno ==
    [][\A raw \in ArchivosIds :
        ImportarCSV(raw, TRUE)
        => IF TodosNA(raw)
           THEN \A i \in DOMAIN data' : data'[i].id = i
           ELSE /\ \A i \in DOMAIN raw : raw[i].id # NA => data'[i].id = raw[i].id
                /\ next_id' > MaxIdImportado(raw)
      ]_vars

(* C10 amended: a CSV import of a file whose id column is entirely missing
   or invalid gives its N rows the ids c .. c+N-1 in row order, c being the
   counter before the import, and leaves the counter at c+N; a CSV import or
   Sheets load with some valid id adopts the valid ids unchanged and leaves
   the counter above the largest imported id *)
C10_IdsDesdeContador ==
    \A raw \in ArchivosIds :
        LET csv == cargar_csv(raw, next_id)
            gs == cargar_sheets(raw)
        IN  IF TodosNA(raw)
            THEN /\ Len(csv.data) = Len(raw)
                 /\ \A i \in DOMAIN csv.data : csv.data[i].id = next_id + i - 1
                 /\ csv.next_id = next_id + Len(raw)
            ELSE /\ \A i \in DOMAIN raw :
                      raw[i].id # NA
                      => csv.data[i].id = raw[i].id /\ gs.data[i].id = raw[i].id
                 /\ csv.next_id > MaxIdImportado(raw)
                 /\ csv.next_id >= next_id
                 /\ gs.next_id > MaxIdImportado(raw)

(* C10 witness: a CSV import that numbered its rows from a counter above 1 *)
C10_Witness ==
    /\ msg.kind = "success_csv"
    /\ data # <<>>
    /\ data[1].id > 1
    /\ data[Len(data)].id = next_id - 1

----------------------------------------------------------------------------
(* Passengers of the legs *)

(* C11: in every reachable state in which cfg_incluir_conductor is off, no
   leg of the store has its driver among its passengers, whatever adds,
   edits, changes of the flag and imports came before *)
C11_ConductorNoPasajero ==
    ~cfg_incluir_conductor
    => \A i \in DOMAIN data : data[i].conductor \notin Range(data[i].pasajeros)

(* the settings of the filters of the listing *)
FiltrosFecha == {NA} \cup FechasListado

(* position of the leg of a listed row in the store *)
PosEnStore(r) == primer_indice(data, r.id)

(* C12 as stated: the listing is ordered by (date, direction, driver)
   ascending with Ida before Vuelta: of two listed legs the one with the
   earlier date comes first; on equal dates the Ida leg comes first whatever
   the drivers; on equal date and direction the smaller driver name comes
   first; legs equal on the three keys keep their insertion order *)
C12_OrdenFechaTramoConductor ==
    \A desde \in FiltrosFecha, hasta \in FiltrosFecha,
       fc \in SUBSET Range(CONDUCTORES) :
        LET L == listado(data, desde, hasta, fc)
        IN  \A a, b \in DOMAIN L :
                a < b
                => /\ ~clave_menor_tramo_antes(L[b], L[a])
                   /\ ~clave_menor_tramo_antes(L[a], L[b])
                        => PosEnStore(L[a]) < PosEnStore(L[b])

(* C12 amended: the listing holds exactly the legs that pass the filters,
   ordered by (date, driver, direction) ascending with Ida before Vuelta: of
   two listed legs the one with the earlier date comes first; on equal dates
   the leg of the smaller driver name comes first whatever the directions;
   on equal date and driver the Ida leg comes first; legs equal on the three
   keys keep their insertion (id) order *)
C12_OrdenFechaConductorTramo ==
    \A desde \in FiltrosFecha, hasta \in FiltrosFecha,
       fc \in SUBSET Range(CONDUCTORES) :
        LET F == df_filtrado(data, desde, hasta, fc)
            L == listado(data, desde, hasta, fc)
        IN  /\ Len(L) = Len(F)
            /\ Range(L) = Range(F)
            /\ \A a, b \in DOMAIN L :
                a < b
                => /\ L[a].fecha <= L[b].fecha
                   /\ L[a].fecha = L[b].fecha
                        => Rango(L[a].conductor) <= Rango(L[b].conductor)
                   /\ (L[a].fecha = L[b].fecha /\ L[a].conductor = L[b].conductor)
                        => (L[a].tramo = "Vuelta" => L[b].tramo = "Vuelta")
                   /\ (/\ L[a].fecha = L[b].fecha
                       /\ L[a].conductor = L[b].conductor
                       /\ L[a].tramo = L[b].tramo)
                        => /\ PosEnStore(L[a]) < PosEnStore(L[b])
                           /\ L[a].id < L[b].id

(* C12 witness: a store of a Wilson Ida leg followed by a Valentina Vuelta
   leg of the same date, which the listing shows in the other order *)
C12_Witness ==
    /\ Len(data) = 2
    /\ data[1].fecha = data[2].fecha
    /\ data[1].conductor = "Wilson" /\ data[1].tramo = "Ida"
    /\ data[2].conductor = "Valentina" /\ data[2].tramo = "Vuelta"
    /\ listado(data, NA, NA, {}) = <<data[2], data[1]>>

(* C13: an add or an edit never leaves a leg without passengers: a step
   that registers or updates a leg in a store whose legs all have a
   passenger leaves a store whose legs all have a passenger *)
C13_SiemprePasajeros ==
    [][(/\ msg'.kind \in {"success_registro", "success_actualizada"}
        /\ \A i \in DOMAIN data : Len(data[i].pasajeros) >= 1)
       => \A i \in DOMAIN data' :
            /\ Len(data'[i].pasajeros) >= 1
            /\ data'[i].n_pasajeros >= 1]_vars

====
